---- MODULE Spec2Model ----
(***************************************************************************)
(* Model of streamlit_app.py, the GMC feed editor: the OAuth credential    *)
(* flow, the feed snapshots kept in the session, the attribute optimizer,  *)
(* the diff engine, the report mailer and the sync loop.                   *)
(*                                                                         *)
(* Text values are sequences of one-character strings.  A cell that        *)
(* pandas holds as NaN (a product that lacks a column other products have) *)
(* is the value NaN below.  Lines 1 and 223 of the file are a Markdown     *)
(* code fence; the model is of the Python program between them.            *)
(***************************************************************************)
EXTENDS Naturals, Sequences, FiniteSets, TLC

VARIABLES cfg, sess, query, pc, click, drawn, loop, calls, ui, exc, exchanged, codes, unit

vars == <<cfg, sess, query, pc, click, drawn, loop, calls, ui, exc, exchanged, codes, unit>>

-----------------------------------------------------------------------------
(* Bounds of the model *)

\* most products in a feed the catalog API returns
MaxRows == 2
\* most authorization codes the identity provider hands out in a session
MaxCodes == 2
\* most token exchanges attempted in a session
MaxExchanges == 4
\* most product ids in the tables handed to a direct call of diff_feed
UnitRows == 2

-----------------------------------------------------------------------------
(* Values *)

NaN == <<"NaN">>
None == <<"None">>
Unbound == <<"Unbound">>

IsNull(v) == v = NaN \/ v = None

\* the four tracked attributes, in the order the loops visit them
TrackedFields == <<"title", "description", "productType", "googleProductCategory">>

Tracked == {TrackedFields[k] : k \in 1..Len(TrackedFields)}

SnippetMax == 1000

MaxTokens == 150

\* line 55 is one comment line: the assignment to RATE_LIMIT_DELAY is part of
\* the comment, so the name is never bound
RATE_LIMIT_DELAY == Unbound

\* what the page shows: st.error, st.warning, st.info, st.success, st.markdown,
\* st.dataframe and st.progress, each as one message; a line that logger.error
\* writes to app.log is a message of kind "log"
Msg(kind, text) == [kind |-> kind, text |-> text, n |-> 0, total |-> 0, data |-> <<>>]

Counted(kind, text, n, total) ==
    [kind |-> kind, text |-> text, n |-> n, total |-> total, data |-> <<>>]

Shown(kind, data) == [kind |-> kind, text |-> "", n |-> 0, total |-> 0, data |-> data]

-----------------------------------------------------------------------------
(* Text helpers *)

IsSpace(c) == c = " "

RECURSIVE LStrip(_)
LStrip(s) == IF s # <<>> /\ IsSpace(Head(s)) THEN LStrip(Tail(s)) ELSE s

RECURSIVE RStrip(_)
RStrip(s) ==
    IF s # <<>> /\ IsSpace(s[Len(s)]) THEN RStrip(SubSeq(s, 1, Len(s) - 1)) ELSE s

\* str.strip()
Strip(s) == RStrip(LStrip(s))

\* s[:n]
Take(s, n) == IF Len(s) <= n THEN s ELSE SubSeq(s, 1, n)

-----------------------------------------------------------------------------
(* Fetch & Backup Feed: the table built from the API's product resources *)

HasCol(products, col) == \E j \in 1..Len(products) : col \in DOMAIN products[j]

\* pd.json_normalize: a column exists when some product has the key, and a
\* product without it holds NaN; line 179 fills a column nobody has with ''
Cell(products, i, col) ==
    IF HasCol(products, col)
    THEN IF col \in DOMAIN products[i] THEN products[i][col] ELSE NaN
    ELSE <<>>

Normalize(products) ==
    [i \in 1..Len(products) |->
        [product_id |-> Cell(products, i, "id"),
         link |-> Cell(products, i, "link"),
         title |-> Cell(products, i, "title"),
         description |-> Cell(products, i, "description"),
         productType |-> Cell(products, i, "productType"),
         googleProductCategory |-> Cell(products, i, "googleProductCategory")]]

-----------------------------------------------------------------------------
(* Diff engine *)

\* pandas' elementwise != on object columns: a null on either side compares
\* unequal, also to another null
Ne(a, b) == IsNull(a) \/ IsNull(b) \/ a # b

Joined(l, r) ==
    [product_id |-> l.product_id,
     link_old |-> l.link, link_new |-> r.link,
     title_old |-> l.title, title_new |-> r.title,
     description_old |-> l.description, description_new |-> r.description,
     productType_old |-> l.productType, productType_new |-> r.productType,
     googleProductCategory_old |-> l.googleProductCategory,
     googleProductCategory_new |-> r.googleProductCategory]

RECURSIVE MatchesOf(_, _)
MatchesOf(l, rights) ==
    IF rights = <<>> THEN <<>>
    ELSE IF Head(rights).product_id = l.product_id
         THEN <<Joined(l, Head(rights))>> \o MatchesOf(l, Tail(rights))
         ELSE MatchesOf(l, Tail(rights))

\* df_old.merge(df_new, on='product_id', suffixes=('_old','_new')): inner join
RECURSIVE Merge(_, _)
Merge(lefts, rights) ==
    IF lefts = <<>> THEN <<>>
    ELSE MatchesOf(Head(lefts), rights) \o Merge(Tail(lefts), rights)

RowChanged(j) ==
    \/ Ne(j.title_old, j.title_new)
    \/ Ne(j.description_old, j.description_new)
    \/ Ne(j.productType_old, j.productType_new)
    \/ Ne(j.googleProductCategory_old, j.googleProductCategory_new)

diff_feed(df_old, df_new) == SelectSeq(Merge(df_old, df_new), RowChanged)

\* DataFrame.to_html(index=False)
to_html(diff) == [table |-> diff]

-----------------------------------------------------------------------------
(* Attribute optimizer *)

\* the page is given as its visible text; requests.get raises on a URL that is
\* no URL (empty, or a NaN cell)
PageResult(url, page) ==
    IF url = <<>> \/ IsNull(url) THEN [ok |-> FALSE, text |-> <<>>] ELSE page

Snippet(url, page) ==
    IF PageResult(url, page).ok THEN Take(Strip(PageResult(url, page).text), SnippetMax)
    ELSE <<>>

Prompt(field, original, snippet) ==
    [field |-> field, original |-> original, snippet |-> snippet]

\* lines 128-136: the trimmed completion text, or the original on any exception
Completed(original, completion) ==
    IF completion.kind = "ok" THEN Strip(completion.content) ELSE original

\* lines 137-138: time.sleep(RATE_LIMIT_DELAY) reads an unbound name
Throttled(result, before) ==
    IF RATE_LIMIT_DELAY = Unbound
    THEN [exc |-> "NameError", ret |-> None, calls |-> before]
    ELSE [exc |-> "none", ret |-> result,
          calls |-> Append(before, [api |-> "sleep", delay |-> RATE_LIMIT_DELAY])]

\* a check that takes an unset key for a key
KeyNotEmpty(apiKey) == apiKey # <<>>

\* whether line 116 lets the call through to the outbound calls
KeyConfigured(apiKey) == ~(apiKey = None \/ apiKey = <<>>)

\* the completion call is logged with what the API answered
ai_optimize(apiKey, field, original, url, page, completion) ==
    IF ~KeyConfigured(apiKey)
    THEN [exc |-> "none", ret |-> original, calls |-> <<>>]
    ELSE Throttled(
            Completed(original, completion),
            <<[api |-> "page_fetch", url |-> url],
              [api |-> "completion",
               prompt |-> Prompt(field, original, Snippet(url, page)),
               max_tokens |-> MaxTokens,
               response |-> completion]>>)

-----------------------------------------------------------------------------
(* Report mailer *)

Mime(html, to) == [subtype |-> "html", to |-> to, subject |-> "GMC QA Report", body |-> html]

\* base64.urlsafe_b64encode(msg.as_bytes()).decode()
Raw(msg) == [base64url |-> msg]

\* whether line 152 lets the call through
RecipientConfigured(emailTo) == ~(emailTo = None \/ emailTo = <<>>)

\* send_email without the return of line 154
send_email_on(html, creds, emailTo, sendOk) ==
    [exc |-> IF sendOk THEN "none" ELSE "HttpError",
     calls |-> <<[api |-> "gmail.build", auth |-> creds],
                 [api |-> "gmail.send", auth |-> creds, raw |-> Raw(Mime(html, emailTo))]>>,
     ui |-> (IF RecipientConfigured(emailTo) THEN <<>> ELSE <<Msg("error", "EMAIL_TO not set")>>)
            \o (IF sendOk THEN <<Msg("success", "QA report sent.")>> ELSE <<>>)]

send_email(html, creds, emailTo, sendOk) ==
    IF ~RecipientConfigured(emailTo)
    THEN [exc |-> "none", calls |-> <<>>, ui |-> <<Msg("error", "EMAIL_TO not set")>>]
    ELSE IF sendOk
         THEN [exc |-> "none",
               calls |-> <<[api |-> "gmail.build", auth |-> creds],
                           [api |-> "gmail.send", auth |-> creds, raw |-> Raw(Mime(html, emailTo))]>>,
               ui |-> <<Msg("success", "QA report sent.")>>]
         ELSE [exc |-> "HttpError",
               calls |-> <<[api |-> "gmail.build", auth |-> creds],
                           [api |-> "gmail.send", auth |-> creds, raw |-> Raw(Mime(html, emailTo))]>>,
               ui |-> <<>>]

-----------------------------------------------------------------------------
(* The session: one script run per visit or button press *)

Key == <<"k">>
Recipient == <<"q", "a">>
Credential == <<"credential">>
Selected == <<"m">>

\* the environment of the process (lines 36-63)
Configs ==
    [redirectUri : BOOLEAN, secrets : BOOLEAN, apiKey : {None, Key}, emailTo : {None, Recipient}]

Clicks == {"none", "fetch", "optimize", "showqa", "emailqa", "sync"}

ID(i) == <<"P", ToString(i)>>

Code(n) == <<"4", "/", ToString(n)>>

\* product resources the catalog API may return for position i
Full(i) ==
    [id |-> ID(i), link |-> <<"u">>, title |-> <<"S">>, description |-> <<"d">>,
     productType |-> <<"t">>, googleProductCategory |-> <<"g">>]

Untitled(i) ==
    [id |-> ID(i), link |-> <<"u">>, description |-> <<"d">>,
     productType |-> <<"t">>, googleProductCategory |-> <<"g">>]

Bare(i) == [id |-> ID(i), title |-> <<" ", "S">>]

Feeds ==
    UNION {{f \in [1..n -> {"full", "untitled", "bare"}] : TRUE} : n \in 0..MaxRows}

Resources(f) ==
    [i \in 1..Len(f) |->
        CASE f[i] = "full" -> Full(i)
          [] f[i] = "untitled" -> Untitled(i)
          [] OTHER -> Bare(i)]

Pages == {[ok |-> FALSE, text |-> <<>>], [ok |-> TRUE, text |-> <<" ", "p">>]}

Completions ==
    {[kind |-> "ok", content |-> <<" ", "b", " ">>], [kind |-> "error"], [kind |-> "malformed"]}

NoLoop == [i |-> 0, f |-> 0, count |-> 0, total |-> 0]

NoUnit == [fn |-> "none"]

Init ==
    /\ cfg \in Configs
    /\ sess = [creds |-> None, flow |-> FALSE, has_df |-> FALSE, df_old |-> <<>>, df |-> <<>>]
    /\ query = None
    /\ pc = "idle"
    /\ click = "none"
    /\ drawn = {}
    /\ loop = NoLoop
    /\ calls = <<>>
    /\ ui = <<>>
    /\ exc = "none"
    /\ exchanged = <<>>
    /\ codes = 0
    /\ unit = NoUnit

\* the module-level checks without the stop of lines 37-39
StartupWithoutRedirectCheck(c) ==
    IF ~c.secrets
    THEN [stop |-> TRUE, ui |-> <<Msg("error", "Client secrets file not found")>>]
    ELSE IF ~KeyConfigured(c.apiKey)
         THEN [stop |-> FALSE, ui |-> <<Msg("warning", "OpenAI API key not set")>>]
         ELSE [stop |-> FALSE, ui |-> <<>>]

\* lines 36-60: the module-level checks every script run starts with
Startup(c) ==
    IF ~c.redirectUri
    THEN [stop |-> TRUE, ui |-> <<Msg("error", "REDIRECT_URI is required")>>]
    ELSE IF ~c.secrets
         THEN [stop |-> TRUE, ui |-> <<Msg("error", "Client secrets file not found")>>]
         ELSE IF ~KeyConfigured(c.apiKey)
              THEN [stop |-> FALSE, ui |-> <<Msg("warning", "OpenAI API key not set")>>]
              ELSE [stop |-> FALSE, ui |-> <<>>]

\* A script run starts: a page load, a reload, the provider's redirect back
\* with a fresh code (possible once an authorization URL was presented), or a
\* press of a button the last run drew.  st.button is True for the pressed
\* button alone.
StartRun(c, redirected) ==
    /\ pc = "idle"
    /\ c = "none" \/ (c \in drawn /\ ~redirected)
    /\ drawn' = {}
    /\ IF redirected
       THEN /\ sess.flow
            /\ codes < MaxCodes
            /\ codes' = codes + 1
            /\ query' = Code(codes + 1)
       ELSE UNCHANGED <<codes, query>>
    /\ click' = c
    /\ calls' = <<>>
    /\ loop' = NoLoop
    /\ ui' = Startup(cfg).ui
    /\ IF Startup(cfg).stop
       THEN pc' = "idle" /\ exc' = "stop"
       ELSE pc' = "auth" /\ exc' = "none"
    /\ UNCHANGED <<cfg, sess, exchanged, unit>>

\* line 91
ExchangeDue == query # None /\ sess.flow

\* line 94: params['code'] is a string, so [0] is its first character
Submitted(code) == <<Head(code)>>

\* line 104: experimental_set_query_params takes keyword arguments only, so the
\* call with a positional dict raises TypeError and the parameters stay
ScrubQuery(q) == [raised |-> TRUE, query |-> q]

\* authorizing only while no flow is stored
NeedsAuthorizeNoFlow(creds) == ~sess.flow

\* line 108
NeedsAuthorize(creds) == creds = None

\* a handler that logs the failure and shows nothing
OnExchangeErrorSilent(u) == Append(u, Msg("log", "OAuth token fetch failed"))

\* lines 105-107: the except block
OnExchangeError(u) ==
    u \o <<Msg("log", "OAuth token fetch failed"), Msg("error", "OAuth error")>>

\* a failed exchange that drops the stored credential
CredsAfterReset(got, creds) == IF got THEN Credential ELSE None

\* lines 94-103: the stored credential after the exchange, if one was due
CredsAfter(got, creds) == IF got THEN Credential ELSE creds

\* fetch_credentials (lines 89-110), with authorize (lines 79-87)
FetchCredentials(ok) ==
    /\ pc = "auth"
    /\ LET due == ExchangeDue
           got == due /\ ok
           creds1 == IF due THEN CredsAfter(got, sess.creds) ELSE sess.creds
           scrub == ScrubQuery(query)
           failed == due /\ (~ok \/ scrub.raised)
           ui1 == IF failed THEN OnExchangeError(ui) ELSE ui
       IN /\ due => Len(exchanged) < MaxExchanges
          /\ ok \/ due
          /\ exchanged' =
                IF due THEN Append(exchanged, [code |-> query, sent |-> Submitted(query), ok |-> ok])
                ELSE exchanged
          /\ calls' = IF due THEN Append(calls, [api |-> "oauth.token", code |-> Submitted(query)])
                      ELSE calls
          /\ query' = IF got THEN scrub.query ELSE query
          /\ IF NeedsAuthorize(creds1)
             THEN /\ sess' = [sess EXCEPT !.creds = creds1, !.flow = TRUE]
                  /\ ui' = Append(ui1, Msg("auth_url", "Authorize with Google"))
                  /\ pc' = "idle"
                  /\ exc' = "stop"
             ELSE /\ sess' = [sess EXCEPT !.creds = creds1]
                  /\ ui' = ui1
                  /\ pc' = "accounts"
                  /\ exc' = "none"
    /\ UNCHANGED <<cfg, click, drawn, loop, codes, unit>>

\* lines 169-173: list the accessible accounts with the credential in hand
ListAccounts(ok) ==
    /\ pc = "accounts"
    /\ calls' = Append(calls, [api |-> "content.authinfo", auth |-> sess.creds])
    /\ IF ok THEN pc' = "buttons" /\ exc' = "none"
       ELSE pc' = "idle" /\ exc' = "HttpError"
    /\ UNCHANGED <<cfg, sess, query, click, drawn, loop, ui, exchanged, codes, unit>>

\* a fetch that keeps the backup of the first fetch
StoreSnapshotsOnce(s, df) ==
    [s EXCEPT !.has_df = TRUE, !.df_old = IF s.has_df THEN s.df_old ELSE df, !.df = df]

\* a fetch that stores the working table and takes no backup
StoreSnapshotsWithoutBackup(s, df) == [s EXCEPT !.has_df = TRUE, !.df = df]

\* lines 181-182: both snapshots are copies of the fetched table
StoreSnapshots(s, df) == [s EXCEPT !.has_df = TRUE, !.df_old = df, !.df = df]

\* the buttons of the block under line 185
SnapshotButtons == {"optimize", "showqa", "sync"}

\* lines 175-183: Fetch & Backup Feed
FetchFeed(f, ok) ==
    /\ pc = "buttons"
    /\ click = "fetch"
    /\ calls' = Append(calls, [api |-> "content.list", auth |-> sess.creds, merchantId |-> Selected])
    /\ IF ok
       THEN /\ sess' = StoreSnapshots(sess, Normalize(Resources(f)))
            /\ ui' = Append(ui, Counted("success", "Fetched", Len(f), Len(f)))
            /\ exc' = "none"
            /\ drawn' = {"fetch"} \cup SnapshotButtons
       ELSE /\ exc' = "HttpError"
            /\ drawn' = {"fetch"}
            /\ UNCHANGED <<sess, ui>>
    /\ pc' = "idle"
    /\ UNCHANGED <<cfg, query, click, loop, exchanged, codes, unit>>

\* a run in which no button's block runs: a plain rerun, a press of a button
\* that needs a snapshot when there is none, or a press of Email QA Report,
\* whose st.button is evaluated only inside the Show QA Report block (line 203)
\* and Show QA Report is False in the run that the press starts
NoButton ==
    /\ pc = "buttons"
    /\ \/ click \in {"none", "emailqa"}
       \/ click \in {"optimize", "showqa", "sync"} /\ ~sess.has_df
    /\ pc' = "idle"
    /\ drawn' = {"fetch"} \cup (IF sess.has_df THEN SnapshotButtons ELSE {})
    /\ UNCHANGED <<cfg, sess, query, click, loop, calls, ui, exc, exchanged, codes, unit>>

\* lines 187-190 (and 196 when the snapshot has no rows)
OptimizeButton ==
    /\ pc = "buttons"
    /\ click = "optimize"
    /\ sess.has_df
    /\ IF Len(sess.df) = 0
       THEN /\ ui' = ui \o <<Counted("progress", "", 0, 0), Msg("success", "Optimization done.")>>
            /\ pc' = "idle"
            /\ loop' = NoLoop
            /\ drawn' = {"fetch"} \cup SnapshotButtons
       ELSE /\ ui' = Append(ui, Counted("progress", "", 0, Len(sess.df)))
            /\ pc' = "optimize"
            /\ drawn' = {"fetch", "optimize"}
            /\ loop' = [i |-> 1, f |-> 1, count |-> 0, total |-> Len(sess.df)]
    /\ UNCHANGED <<cfg, sess, query, click, calls, exc, exchanged, codes, unit>>

\* df.at[i, f] = value (line 193)
SetCell(df, i, field, value) == [df EXCEPT ![i][field] = value]

\* lines 191-196: one ai_optimize call of the loop and what follows it.  row[f]
\* is the cell as it was when the row's iteration started; no earlier call of
\* the loop writes that cell, so it is the cell's current value
OptimizeCall(page, completion) ==
    /\ pc = "optimize"
    /\ LET field == TrackedFields[loop.f]
           row == sess.df[loop.i]
           r == ai_optimize(cfg.apiKey, field, row[field], row.link, page, completion)
           lastField == loop.f = Len(TrackedFields)
           lastRow == loop.i = loop.total
       IN /\ calls' = calls \o r.calls
          /\ IF r.exc # "none"
             THEN /\ exc' = r.exc
                  /\ pc' = "idle"
                  /\ UNCHANGED <<sess, ui, loop, drawn>>
             ELSE /\ sess' = [sess EXCEPT !.df = SetCell(sess.df, loop.i, field, r.ret)]
                  /\ exc' = "none"
                  /\ IF ~lastField
                     THEN /\ loop' = [loop EXCEPT !.f = loop.f + 1]
                          /\ UNCHANGED <<ui, pc, drawn>>
                     ELSE IF ~lastRow
                          THEN /\ loop' = [loop EXCEPT !.i = loop.i + 1, !.f = 1]
                               /\ ui' = Append(ui, Counted("progress", "", loop.i, loop.total))
                               /\ UNCHANGED <<pc, drawn>>
                          ELSE /\ loop' = loop
                               /\ drawn' = {"fetch"} \cup SnapshotButtons
                               /\ ui' = ui \o <<Counted("progress", "", loop.i, loop.total),
                                                Msg("success", "Optimization done.")>>
                               /\ pc' = "idle"
    /\ UNCHANGED <<cfg, query, click, exchanged, codes, unit>>

\* lines 197-204: Show QA Report.  The Email QA Report button is drawn under a
\* non-empty diff and is False in this run, which the Show QA Report press started
ShowQA ==
    /\ pc = "buttons"
    /\ click = "showqa"
    /\ sess.has_df
    /\ IF diff_feed(sess.df_old, sess.df) = <<>>
       THEN /\ ui' = Append(ui, Msg("info", "No changes."))
            /\ drawn' = {"fetch"} \cup SnapshotButtons
       ELSE /\ ui' = Append(ui, Shown("dataframe", diff_feed(sess.df_old, sess.df)))
            /\ drawn' = {"fetch", "emailqa"} \cup SnapshotButtons
    /\ pc' = "idle"
    /\ UNCHANGED <<cfg, sess, query, click, loop, calls, exc, exchanged, codes, unit>>

\* lines 205-209 (and 218 when the snapshot has no rows)
SyncButton ==
    /\ pc = "buttons"
    /\ click = "sync"
    /\ sess.has_df
    /\ IF Len(sess.df) = 0
       THEN /\ ui' = ui \o <<Counted("progress", "", 0, 0), Counted("success", "Synced", 0, 0)>>
            /\ pc' = "idle"
            /\ loop' = NoLoop
       ELSE /\ ui' = Append(ui, Counted("progress", "", 0, Len(sess.df)))
            /\ pc' = "sync"
            /\ loop' = [i |-> 1, f |-> 0, count |-> 0, total |-> Len(sess.df)]
    /\ drawn' = {"fetch"} \cup SnapshotButtons
    /\ UNCHANGED <<cfg, sess, query, click, calls, exc, exchanged, codes, unit>>

\* a patch that carries the row's link as well
PatchWithLink(row, creds) ==
    [api |-> "content.patch", auth |-> creds, merchantId |-> Selected,
     productId |-> row.product_id,
     body |-> [f \in Tracked \cup {"link"} |-> row[f]]]

\* lines 211-215: the patch call for one row
Patch(row, creds) ==
    [api |-> "content.patch", auth |-> creds, merchantId |-> Selected,
     productId |-> row.product_id,
     body |-> [f \in Tracked |-> row[f]]]

\* a loop that catches a failed patch and goes on with the next row
SyncPatchIsolated(ok) ==
    /\ pc = "sync"
    /\ calls' = Append(calls, Patch(sess.df[loop.i], sess.creds) @@ [raised |-> ~ok])
    /\ exc' = "none"
    /\ LET n == IF ok THEN loop.count + 1 ELSE loop.count
       IN IF loop.i < loop.total
          THEN /\ loop' = [loop EXCEPT !.i = loop.i + 1, !.count = n]
               /\ ui' = Append(ui, Counted("progress", "", n, loop.total))
               /\ UNCHANGED pc
          ELSE /\ loop' = [loop EXCEPT !.count = n]
               /\ ui' = ui \o <<Counted("progress", "", n, loop.total),
                                Counted("success", "Synced", n, n)>>
               /\ pc' = "idle"
    /\ UNCHANGED <<cfg, sess, query, click, drawn, exchanged, codes, unit>>

\* lines 210-218: one patch call of the loop and what follows it; the call is
\* logged with whether it raised
SyncPatch(ok) ==
    /\ pc = "sync"
    /\ calls' = Append(calls, Patch(sess.df[loop.i], sess.creds) @@ [raised |-> ~ok])
    /\ IF ~ok
       THEN /\ exc' = "HttpError"
            /\ pc' = "idle"
            /\ UNCHANGED <<ui, loop>>
       ELSE /\ exc' = "none"
            /\ IF loop.i < loop.total
               THEN /\ loop' = [loop EXCEPT !.i = loop.i + 1, !.count = loop.count + 1]
                    /\ ui' = Append(ui, Counted("progress", "", loop.count + 1, loop.total))
                    /\ UNCHANGED pc
               ELSE /\ loop' = [loop EXCEPT !.count = loop.count + 1]
                    /\ ui' = ui \o <<Counted("progress", "", loop.count + 1, loop.total),
                                     Counted("success", "Synced", loop.count + 1, loop.count + 1)>>
                    /\ pc' = "idle"
    /\ UNCHANGED <<cfg, sess, query, click, drawn, exchanged, codes, unit>>

Next ==
    \/ \E c \in Clicks, redirected \in BOOLEAN : StartRun(c, redirected)
    \/ \E ok \in BOOLEAN : FetchCredentials(ok)
    \/ \E ok \in BOOLEAN : ListAccounts(ok)
    \/ \E f \in Feeds, ok \in BOOLEAN : FetchFeed(f, ok)
    \/ NoButton
    \/ OptimizeButton
    \/ \E page \in Pages, completion \in Completions : OptimizeCall(page, completion)
    \/ ShowQA
    \/ SyncButton
    \/ \E ok \in BOOLEAN : SyncPatch(ok)

Spec == Init /\ [][Next]_vars

-----------------------------------------------------------------------------
(* Direct calls of diff_feed, ai_optimize and send_email on drawn arguments *)

Variants == {"base", "title", "titleNaN", "description", "typeNaN", "category", "link"}

Base(i) ==
    [product_id |-> ID(i), link |-> <<"u">>, title |-> <<"S">>, description |-> <<"d">>,
     productType |-> <<"t">>, googleProductCategory |-> <<"g">>]

Variant(i, v) ==
    CASE v = "title" -> [Base(i) EXCEPT !.title = <<"R", "S">>]
      [] v = "titleNaN" -> [Base(i) EXCEPT !.title = NaN]
      [] v = "description" -> [Base(i) EXCEPT !.description = <<"e">>]
      [] v = "typeNaN" -> [Base(i) EXCEPT !.productType = NaN]
      [] v = "category" -> [Base(i) EXCEPT !.googleProductCategory = <<"h">>]
      [] v = "link" -> [Base(i) EXCEPT !.link = <<"v">>]
      [] OTHER -> Base(i)

Least(S) == CHOOSE x \in S : \A y \in S : x <= y

RECURSIVE Ascending(_)
Ascending(S) == IF S = {} THEN <<>> ELSE <<Least(S)>> \o Ascending(S \ {Least(S)})

TableOf(S, g) == [k \in 1..Cardinality(S) |-> Variant(Ascending(S)[k], g[Ascending(S)[k]])]

\* a column holds NaN only beside a row that has a value in it (Cell)
Storable(t) ==
    \A f \in Tracked :
        (\E k \in 1..Len(t) : t[k][f] = NaN) => (\E k \in 1..Len(t) : t[k][f] # NaN)

\* tables with unique product ids, in id order
UnitTables ==
    {t \in UNION {{TableOf(S, g) : g \in [S -> Variants]} : S \in SUBSET (1..UnitRows)} :
        Storable(t)}

RunnableConfigs == {c \in Configs : c.redirectUri /\ c.secrets}

DiffCalls ==
    {[fn |-> "diff_feed", args |-> [df_old |-> a, df_new |-> b], done |-> FALSE, out |-> <<>>] :
        a \in UnitTables, b \in UnitTables}

OptimizeCalls ==
    {[fn |-> "ai_optimize",
      args |-> [field |-> f, original |-> o, url |-> u, page |-> p, completion |-> c],
      done |-> FALSE, out |-> <<>>] :
        f \in Tracked, o \in {<<"S">>, <<" ", "S">>, NaN}, u \in {<<>>, <<"u">>},
        p \in Pages, c \in Completions}

MailCalls ==
    {[fn |-> "send_email", args |-> [html |-> to_html(d), creds |-> Credential, sendOk |-> ok],
      done |-> FALSE, out |-> <<>>] :
        d \in {diff_feed(<<Base(1)>>, <<Variant(1, v)>>) : v \in Variants}, ok \in BOOLEAN}

InitUnit ==
    /\ sess = [creds |-> None, flow |-> FALSE, has_df |-> FALSE, df_old |-> <<>>, df |-> <<>>]
    /\ query = None
    /\ pc = "idle"
    /\ click = "none"
    /\ drawn = {}
    /\ loop = NoLoop
    /\ calls = <<>>
    /\ ui = <<>>
    /\ exc = "none"
    /\ exchanged = <<>>
    /\ codes = 0
    /\ \/ unit \in DiffCalls /\ cfg = [redirectUri |-> TRUE, secrets |-> TRUE, apiKey |-> None, emailTo |-> None]
       \/ unit \in OptimizeCalls /\ cfg \in RunnableConfigs
       \/ unit \in MailCalls /\ cfg \in RunnableConfigs

CallDiffFeed ==
    /\ unit.fn = "diff_feed"
    /\ ~unit.done
    /\ unit' = [unit EXCEPT !.done = TRUE, !.out = diff_feed(unit.args.df_old, unit.args.df_new)]
    /\ UNCHANGED <<cfg, sess, query, pc, click, drawn, loop, calls, ui, exc, exchanged, codes>>

CallAiOptimize ==
    /\ unit.fn = "ai_optimize"
    /\ ~unit.done
    /\ unit' = [unit EXCEPT !.done = TRUE,
                            !.out = ai_optimize(cfg.apiKey, unit.args.field, unit.args.original,
                                                unit.args.url, unit.args.page, unit.args.completion)]
    /\ UNCHANGED <<cfg, sess, query, pc, click, drawn, loop, calls, ui, exc, exchanged, codes>>

CallSendEmail ==
    /\ unit.fn = "send_email"
    /\ ~unit.done
    /\ unit' = [unit EXCEPT !.done = TRUE,
                            !.out = send_email(unit.args.html, unit.args.creds, cfg.emailTo,
                                               unit.args.sendOk)]
    /\ UNCHANGED <<cfg, sess, query, pc, click, drawn, loop, calls, ui, exc, exchanged, codes>>

NextUnit == CallDiffFeed \/ CallAiOptimize \/ CallSendEmail

SpecUnit == InitUnit /\ [][NextUnit]_vars

-----------------------------------------------------------------------------
(* Properties *)

IsPatch(c) == c.api = "content.patch"

PatchCalls == SelectSeq(calls, IsPatch)

IsCatalogOrMail(c) ==
    c.api \in {"content.authinfo", "content.list", "content.patch", "gmail.build", "gmail.send"}

Ids(df) == {df[k].product_id : k \in 1..Len(df)}

HasMsg(kind, text) == \E k \in 1..Len(ui) : ui[k].kind = kind /\ ui[k].text = text

OptimizeCalled == unit.fn = "ai_optimize" /\ unit.done

DiffCalled == unit.fn = "diff_feed" /\ unit.done

MailCalled == unit.fn = "send_email" /\ unit.done

\* C1: with a language-model key configured, a call of ai_optimize in which the
\* page fetch fails and/or the completion fails or is malformed returns
\* normally, and returns the original value.
C1_NeverPropagates ==
    (/\ OptimizeCalled
     /\ cfg.apiKey = Key
     /\ \/ ~PageResult(unit.args.url, unit.args.page).ok
        \/ unit.args.completion.kind # "ok")
    => (unit.out.exc = "none" /\ unit.out.ret = unit.args.original)

\* C2: a product id is in diff_feed(A, B) exactly when it is in A and in B and
\* one of its four tracked attributes has different values in A and B.
C2_DiffIff ==
    DiffCalled =>
        \A i \in 1..UnitRows :
            (ID(i) \in Ids(unit.out))
            <=> (\E a \in 1..Len(unit.args.df_old), b \in 1..Len(unit.args.df_new) :
                    /\ unit.args.df_old[a].product_id = ID(i)
                    /\ unit.args.df_new[b].product_id = ID(i)
                    /\ \E f \in Tracked : unit.args.df_old[a][f] # unit.args.df_new[b][f])

QAShown == \E k \in 1..Len(ui) : ui[k].kind \in {"info", "dataframe"}

\* C3: the diff of a stored table with itself is empty, so Show QA Report on
\* snapshots that are equal (as right after a fetch) reports no changes.
C3_SelfDiffEmpty ==
    /\ sess.has_df => diff_feed(sess.df_old, sess.df_old) = <<>>
    /\ (QAShown /\ sess.df = sess.df_old) => HasMsg("info", "No changes.")

\* C4: with no language-model key configured, ai_optimize returns its second
\* argument for every field, value and URL, and makes no page fetch, no
\* completion call and no throttle pause.
C4_Passthrough ==
    (OptimizeCalled /\ cfg.apiKey = None)
    => /\ unit.out.exc = "none"
       /\ unit.out.ret = unit.args.original
       /\ unit.out.calls = <<>>

C4_Witness ==
    /\ OptimizeCalled
    /\ cfg.apiKey = None
    /\ unit.args.url = <<>>
    /\ unit.args.field = "productType"
    /\ unit.args.original = <<" ", "S">>
    /\ unit.out.ret = <<" ", "S">>

\* C5: a patch call that raises is the last call of the sync: the rows before
\* it were submitted in order and nothing undoes them, no later row is patched,
\* no synced count is reported, and every count the action shows is below the
\* number of rows.
C5_SyncHalts ==
    LET P == PatchCalls
    IN /\ \A j \in 1..Len(P) : P[j].raised => (j = Len(P) /\ pc = "idle")
       /\ (Len(P) > 0 /\ P[Len(P)].raised) =>
            /\ calls[Len(calls)] = P[Len(P)]
            /\ exc # "none"
            /\ Len(P) <= Len(sess.df)
            /\ \A j \in 1..Len(P) : P[j].productId = sess.df[j].product_id
            /\ loop.count = Len(P) - 1
            /\ ~(\E k \in 1..Len(ui) : ui[k].text = "Synced")
            /\ \A k \in 1..Len(ui) : ui[k].kind = "progress" => ui[k].n < Len(sess.df)

C5_Witness ==
    /\ Len(PatchCalls) = 2
    /\ ~PatchCalls[1].raised
    /\ PatchCalls[2].raised
    /\ pc = "idle"
    /\ loop.count = 1

Synced == \E k \in 1..Len(ui) : ui[k].text = "Synced"

C6_State ==
    LET P == PatchCalls
    IN /\ \A j \in 1..Len(P) :
            /\ j <= Len(sess.df)
            /\ P[j].productId = sess.df[j].product_id
            /\ DOMAIN P[j].body = Tracked
            /\ \A f \in Tracked : P[j].body[f] = sess.df[j][f]
       /\ Synced =>
            /\ Len(P) = Len(sess.df)
            /\ \A k \in 1..Len(ui) : ui[k].text = "Synced" => ui[k].n = Len(sess.df)

C6_Step ==
    (pc = "sync" \/ (pc = "buttons" /\ click = "sync"))
    => (sess' = sess /\ Len(calls') <= Len(calls) + 1)

\* C6: the patch calls of a sync are, in row order, one per row of the working
\* snapshot, each for that row's product id with exactly the four tracked
\* attributes at their current values; a sync in which no patch fails reports
\* the number of rows; each step issues at most one call, and no step of a
\* sync changes either snapshot.
C6_Sync == []C6_State /\ [][C6_Step]_vars

C6_Witness ==
    /\ Synced
    /\ Len(PatchCalls) = MaxRows
    /\ PatchCalls[2].body.title = NaN

\* C7: with no recipient configured, send_email makes no mail-API call, shows
\* a configuration error and shows no success.
C7_NoRecipient ==
    (MailCalled /\ cfg.emailTo = None)
    => /\ unit.out.calls = <<>>
       /\ unit.out.exc = "none"
       /\ \E k \in 1..Len(unit.out.ui) : unit.out.ui[k].kind = "error"
       /\ \A k \in 1..Len(unit.out.ui) : unit.out.ui[k].kind # "success"

C7_Witness ==
    /\ MailCalled
    /\ cfg.emailTo = None
    /\ unit.args.html.table # <<>>
    /\ unit.out.ui = <<Msg("error", "EMAIL_TO not set")>>

\* C8: whenever snapshots exist, the working snapshot holds exactly the product
\* ids of the original snapshot.
C8_SameIds ==
    /\ sess.has_df => (Ids(sess.df) = Ids(sess.df_old) /\ Len(sess.df) = Len(sess.df_old))
    /\ ~sess.has_df => (sess.df = <<>> /\ sess.df_old = <<>>)

C8_Witness ==
    /\ sess.has_df
    /\ Len(sess.df) = MaxRows
    /\ click = "optimize"
    /\ exc = "NameError"
    /\ pc = "idle"

\* C9: every catalog or mail call is made with the stored credential; the run
\* is past fetch_credentials only with a credential stored; and a run of main
\* that ends with no credential stored ends on the authorization URL with no
\* catalog or mail call made.
C9_NoCallWithoutCredential ==
    /\ \A k \in 1..Len(calls) :
            IsCatalogOrMail(calls[k]) => (calls[k].auth = Credential /\ sess.creds = Credential)
    /\ pc \in {"accounts", "buttons", "optimize", "sync"} => sess.creds = Credential
    /\ (pc = "idle" /\ exc = "stop" /\ cfg.redirectUri /\ cfg.secrets /\ sess.creds = None)
        => /\ ui # <<>>
           /\ ui[Len(ui)].kind = "auth_url"
           /\ \A k \in 1..Len(calls) : ~IsCatalogOrMail(calls[k])

C9_Witness ==
    /\ pc = "idle"
    /\ exc = "stop"
    /\ sess.creds = None
    /\ click = "none"
    /\ Len(exchanged) = 1
    /\ ~exchanged[1].ok
    /\ ui[Len(ui)].kind = "auth_url"

Exchanges(code) == Cardinality({k \in 1..Len(exchanged) : exchanged[k].code = code})

\* C10: a received authorization code is submitted to the token exchange once
\* in the whole session, and once exchanged it is gone from the query
\* parameters.
C10_ExchangedOnce ==
    /\ \A n \in 1..MaxCodes : Exchanges(Code(n)) <= 1
    /\ (pc # "auth" /\ query # None) => Exchanges(query) = 0

ExchangedThisRun == \E k \in 1..Len(calls) : calls[k].api = "oauth.token"

\* C11: when the code exchange raises with no credential stored, the run ends
\* by st.stop, not by an exception: the failure is logged and shown, no
\* credential is stored, a flow is stored and the authorization URL is
\* presented after the error, and the run has made no catalog or mail call.
C11_ExchangeFailureCaught ==
    (/\ ExchangedThisRun
     /\ ~exchanged[Len(exchanged)].ok
     /\ sess.creds = None)
    => /\ pc = "idle"
       /\ exc = "stop"
       /\ sess.flow
       /\ \E k \in 1..Len(ui) :
            /\ ui[k].kind = "log"
            /\ k + 2 <= Len(ui)
            /\ ui[k + 1] = Msg("error", "OAuth error")
            /\ ui[Len(ui)].kind = "auth_url"
       /\ \A k \in 1..Len(calls) : ~IsCatalogOrMail(calls[k])

C11_Witness ==
    /\ ExchangedThisRun
    /\ Len(exchanged) = 2
    /\ ~exchanged[1].ok
    /\ ~exchanged[2].ok
    /\ sess.creds = None
    /\ ui[Len(ui)].kind = "auth_url"

\* C12: with no redirect URL configured every run reports the error and stops
\* at once: no flow is built, no credential or snapshot is stored, no code is
\* exchanged and no outbound call is made.
C12_RefusesToStart ==
    ~cfg.redirectUri =>
        /\ pc = "idle"
        /\ exc \in {"none", "stop"}
        /\ exc = "stop" => ui = <<Msg("error", "REDIRECT_URI is required")>>
        /\ calls = <<>>
        /\ exchanged = <<>>
        /\ query = None
        /\ drawn = {}
        /\ sess = [creds |-> None, flow |-> FALSE, has_df |-> FALSE, df_old |-> <<>>, df |-> <<>>]

C12_Witness ==
    /\ ~cfg.redirectUri
    /\ cfg.secrets
    /\ exc = "stop"
    /\ ui = <<Msg("error", "REDIRECT_URI is required")>>

IsCompletion(c) == c.api = "completion"

CompletionCalls == SelectSeq(calls, IsCompletion)

OptimizeRan == click = "optimize" /\ pc = "idle" /\ loop.total > 0

\* C13: with a key configured and every completion succeeding, a run of AI
\* Optimize Attributes makes one completion call per row and tracked field, in
\* row order and field order, leaves in every tracked cell the trimmed
\* response of its call, leaves product_id and link alone, and reports
\* 'Optimization done.'
C13_OptimizeAll ==
    (/\ OptimizeRan
     /\ cfg.apiKey = Key
     /\ \A k \in 1..Len(CompletionCalls) : CompletionCalls[k].response.kind = "ok")
    => /\ exc = "none"
       /\ HasMsg("success", "Optimization done.")
       /\ Len(CompletionCalls) = Len(TrackedFields) * Len(sess.df)
       /\ \A i \in 1..Len(sess.df) :
            /\ sess.df[i].product_id = sess.df_old[i].product_id
            /\ sess.df[i].link = sess.df_old[i].link
            /\ \A f \in 1..Len(TrackedFields) :
                LET c == CompletionCalls[(i - 1) * Len(TrackedFields) + f]
                IN /\ c.prompt.field = TrackedFields[f]
                   /\ sess.df[i][TrackedFields[f]] = Strip(c.response.content)

IsSleep(c) == c.api = "sleep"

\* C14: with a key configured, every call of ai_optimize returns after exactly
\* one throttle pause, made after the completion call, whether the completion
\* succeeded or failed.
C14_ThrottleOnce ==
    (OptimizeCalled /\ cfg.apiKey = Key)
    => /\ unit.out.exc = "none"
       /\ Len(SelectSeq(unit.out.calls, IsSleep)) = 1
       /\ unit.out.calls[Len(unit.out.calls)].api = "sleep"
       /\ unit.out.calls[Len(unit.out.calls) - 1].api = "completion"

C15_State ==
    (click = "fetch" /\ pc = "idle" /\ HasMsg("success", "Fetched"))
    => (sess.has_df /\ sess.df_old = sess.df)

C15_Step ==
    sess'.df_old # sess.df_old
    => (pc = "buttons" /\ click = "fetch" /\ sess'.has_df /\ sess'.df_old = sess'.df)

\* C15: the original snapshot changes only in a step of Fetch & Backup Feed,
\* and after a fetch both snapshots are the same table; no step of AI Optimize
\* Attributes, Show QA Report, Email QA Report or Sync to GMC changes it.
C15_OriginalImmutable == []C15_State /\ [][C15_Step]_vars

C15_Witness ==
    /\ HasMsg("success", "Optimization done.")
    /\ Len(sess.df_old) = MaxRows
    /\ sess.df_old[2].title = NaN
    /\ sess.df_old[1].title = <<"S">>

IsSend(c) == c.api = "gmail.send"

MailSends == SelectSeq(calls, IsSend)

\* a run that a press of Email QA Report started and that ran to its end
EmailPressed == click = "emailqa" /\ pc = "idle" /\ exc = "none"

\* C16: with a recipient configured, a credential stored and a non-empty diff,
\* a press of Email QA Report makes exactly one mail-send call, whose message
\* body is the HTML table of the diff; with an empty diff no run makes a
\* mail-send call.
C16_EmailSendsOnce ==
    /\ (/\ EmailPressed
        /\ cfg.emailTo = Recipient
        /\ sess.creds = Credential
        /\ diff_feed(sess.df_old, sess.df) # <<>>)
       => /\ Len(MailSends) = 1
          /\ MailSends[1].raw = Raw(Mime(to_html(diff_feed(sess.df_old, sess.df)), Recipient))
    /\ diff_feed(sess.df_old, sess.df) = <<>> => MailSends = <<>>

HasAuthUrl == \E k \in 1..Len(ui) : ui[k].kind = "auth_url"

\* the current visit has passed the credential check of line 108: the flow is
\* stored from the first such visit on, and a visit is past line 108 as soon as
\* fetch_credentials has returned or stopped
PastCredentialCheck == cfg.redirectUri /\ cfg.secrets /\ sess.flow /\ pc # "auth"

C17_State ==
    /\ HasAuthUrl => (sess.creds = None /\ pc = "idle" /\ exc = "stop")
    /\ (PastCredentialCheck /\ sess.creds = None) => HasAuthUrl
    /\ (PastCredentialCheck /\ sess.creds = Credential) => ~HasAuthUrl

C17_Step ==
    /\ sess.creds = Credential => sess'.creds = Credential
    /\ sess.flow => sess'.flow

\* C17: the credential state only moves forward: a stored credential is never
\* removed by a press, a rerun or a failed code exchange, a stored flow stays
\* stored, and a visit presents the authorization URL exactly when no
\* credential is stored at its credential check.
C17_CredentialForward == []C17_State /\ [][C17_Step]_vars

C17_Witness ==
    /\ Len(exchanged) >= 2
    /\ exchanged[1].ok
    /\ ~exchanged[Len(exchanged)].ok
    /\ ExchangedThisRun
    /\ sess.creds = Credential
    /\ pc = "buttons"
    /\ ~HasAuthUrl

====
